---- MODULE Spec2Model ----
(***************************************************************************)
(* Model of the poker hand evaluator (src/index.js): the card codec        *)
(* (parseCard, cardToString), the 5-card classifier (evaluate5), the       *)
(* comparator (compareHands), the best-hand selector (evaluate7) and the   *)
(* equity estimators (preFlopStrength, winProbability).                    *)
(*                                                                         *)
(* Every operation of the program is a pure function, so each is an        *)
(* operator here, and each specification below draws the inputs of one     *)
(* component from a bounded set and applies the component's operations.    *)
(*                                                                         *)
(* Representation of JavaScript values:                                    *)
(*   - a string is a sequence of one-character strings;                    *)
(*   - a token handed to parseCard is [type, chars]: type is what typeof   *)
(*     and truthiness see ("string", "null", "undefined", "number",       *)
(*     "object"), chars is the string's characters (<<>> for a non-string);*)
(*   - null results are the records Null (a card) and NullHand (a hand).   *)
(***************************************************************************)
EXTENDS Integers, Sequences, FiniteSets, TLC

VARIABLES
  pc,            \* which call the caller has made so far
  str,           \* codec: the token handed to parseCard
  card,          \* codec: the card handed to cardToString
  parsed,        \* codec: what parseCard returned
  text,          \* codec: what cardToString returned
  cards,         \* classifier: the five cards handed to evaluate5
  hand,          \* classifier: what evaluate5(cards) returned
  shuffled,      \* classifier: the same five cards in another order
  hand2,         \* classifier: what evaluate5(shuffled) returned
  a, b,          \* comparator: the two evaluations handed to compareHands
  cmp,           \* comparator: what compareHands(a, b) returned
  cardStrings,   \* selector: the tokens handed to evaluate7
  best,          \* selector: what evaluate7(cardStrings) returned
  holeCards,     \* estimator: opts.holeCards
  boardCards,    \* estimator: opts.boardCards
  numOpponents,  \* estimator: opts.numOpponents
  equity         \* estimator: what preFlopStrength / winProbability returned

codecVars == <<str, card, parsed, text>>
classifierVars == <<cards, hand, shuffled, hand2>>
comparatorVars == <<a, b, cmp>>
selectorVars == <<cardStrings, best>>
estimatorVars == <<holeCards, boardCards, numOpponents, equity>>

vars == <<pc, codecVars, classifierVars, comparatorVars, selectorVars, estimatorVars>>

-----------------------------------------------------------------------------
(* Card codec: src/index.js lines 12-41                                    *)

RANKS == <<"2", "3", "4", "5", "6", "7", "8", "9", "T", "J", "Q", "K", "A">>

SUITS == <<"s", "h", "d", "c">>

\* The result `null` of parseCard.
Null == [rank |-> -1, suit |-> -1]

\* `undefined`, the result of looking up a key an object does not have.
Undefined == -1

\* A value that is neither a number nor undefined: a function or object that
\* a lookup in a plain object finds on Object.prototype.
InheritedMember == -2

\* The property names every plain object inherits from Object.prototype.
ObjectPrototypeKeys ==
  { <<"c","o","n","s","t","r","u","c","t","o","r">>,
    <<"h","a","s","O","w","n","P","r","o","p","e","r","t","y">>,
    <<"i","s","P","r","o","t","o","t","y","p","e","O","f">>,
    <<"p","r","o","p","e","r","t","y","I","s","E","n","u","m","e","r","a","b","l","e">>,
    <<"t","o","L","o","c","a","l","e","S","t","r","i","n","g">>,
    <<"t","o","S","t","r","i","n","g">>,
    <<"v","a","l","u","e","O","f">>,
    <<"_","_","p","r","o","t","o","_","_">>,
    <<"_","_","d","e","f","i","n","e","G","e","t","t","e","r","_","_">>,
    <<"_","_","d","e","f","i","n","e","S","e","t","t","e","r","_","_">>,
    <<"_","_","l","o","o","k","u","p","G","e","t","t","e","r","_","_">>,
    <<"_","_","l","o","o","k","u","p","S","e","t","t","e","r","_","_">> }

\* Index of the first element of seq equal to x, 0 when there is none.
IndexOf(seq, x) ==
  IF \E i \in 1..Len(seq) : seq[i] = x
  THEN CHOOSE i \in 1..Len(seq) : seq[i] = x /\ \A j \in 1..(i-1) : seq[j] # x
  ELSE 0

\* RANK_IDX[key]: RANK_IDX is a plain object built by Object.fromEntries, so
\* the lookup also finds the members inherited from Object.prototype.
RANK_IDX(key) ==
  IF Len(key) = 1 /\ IndexOf(RANKS, key[1]) # 0 THEN IndexOf(RANKS, key[1]) - 1
  ELSE IF key \in ObjectPrototypeKeys THEN InheritedMember
  ELSE Undefined

\* SUIT_IDX[key], key a string.
SUIT_IDX(key) ==
  IF Len(key) = 1 /\ IndexOf(SUITS, key[1]) # 0 THEN IndexOf(SUITS, key[1]) - 1
  ELSE IF key \in ObjectPrototypeKeys THEN InheritedMember
  ELSE Undefined

UpperCase == << "A","B","C","D","E","F","G","H","I","J","K","L","M","N","O","P","Q","R","S","T","U","V","W","X","Y","Z" >>

LowerCase == << "a","b","c","d","e","f","g","h","i","j","k","l","m","n","o","p","q","r","s","t","u","v","w","x","y","z" >>

\* String.prototype.toLowerCase on one character.
LowerChar(ch) ==
  IF IndexOf(UpperCase, ch) # 0 THEN LowerCase[IndexOf(UpperCase, ch)] ELSE ch

toLowerCase(s) == [i \in 1..Len(s) |-> LowerChar(s[i])]

\* A JavaScript string value.
Str(chars) == [type |-> "string", chars |-> chars]

\* A JavaScript value that is not a string (null, undefined, a number, an array).
NonString(type) == [type |-> type, chars |-> <<>>]

\* str.slice(0, -1) and str.slice(0, 2): the same characters when length is 3.
RankPrefix(chars) ==
  IF Len(chars) = 3 THEN SubSeq(chars, 1, 2) ELSE SubSeq(chars, 1, Len(chars) - 1)

parseCard(s) ==
  IF s.type # "string" \/ Len(s.chars) < 2 THEN Null
  ELSE LET rank == RankPrefix(s.chars)
           suit == toLowerCase(SubSeq(s.chars, Len(s.chars), Len(s.chars)))
           r == RANK_IDX(rank)
           su == SUIT_IDX(suit)
       IN IF r = Undefined \/ su = Undefined THEN Null
          ELSE [rank |-> r, suit |-> su]

\* RANKS[i] + ...: an index outside the array reads undefined, which string
\* concatenation renders as "undefined".
RankText(r) ==
  IF r \in 0..(Len(RANKS) - 1) THEN <<RANKS[r + 1]>>
  ELSE <<"u","n","d","e","f","i","n","e","d">>

SuitText(s) ==
  IF s \in 0..(Len(SUITS) - 1) THEN <<SUITS[s + 1]>>
  ELSE <<"u","n","d","e","f","i","n","e","d">>

cardToStringSwappedSuits(c) ==
  RankText(c.rank) \o SuitText(IF c.suit \in {1, 2} THEN 3 - c.suit ELSE c.suit)

cardToString(c) == RankText(c.rank) \o SuitText(c.suit)

\* The 52 cards.
Cards == [rank : 0..(Len(RANKS) - 1), suit : 0..(Len(SUITS) - 1)]

IsCard(c) == c \in Cards

-----------------------------------------------------------------------------
(* Inputs of the codec                                                     *)

\* Longest token enumerated character by character.
MaxTokenLen == 2

Alphabet ==
  {RANKS[i] : i \in 1..Len(RANKS)} \cup {SUITS[i] : i \in 1..Len(SUITS)}
    \cup {"S", "H", "D", "C", "a", "1", "0", "x"}

RECURSIVE StringsOfLen(_)
StringsOfLen(n) ==
  IF n = 0 THEN {<<>>}
  ELSE {Append(s, ch) : s \in StringsOfLen(n - 1), ch \in Alphabet}

\* Longer tokens: a "10"-style rank, a trailing extra character, and the
\* names of inherited members followed by a suit character.
LongTokens ==
  { <<"1","0","s">>, <<"1","0","H">>, <<"A","s","s">>, <<"A","A","s">>,
    <<"K","h","x">>, <<"A","s","K","h">> }
  \cup {k \o <<su>> : k \in ObjectPrototypeKeys, su \in {"s", "H", "x"}}

CodecInputs ==
  {Str(s) : s \in UNION {StringsOfLen(n) : n \in 0..MaxTokenLen} \cup LongTokens}
  \cup {NonString(t) : t \in {"null", "undefined", "number", "object"}}

-----------------------------------------------------------------------------
(* 5-card classifier: src/index.js lines 17-107                            *)

HIGH_CARD == 0
ONE_PAIR == 1
TWO_PAIR == 2
THREE_OF_A_KIND == 3
STRAIGHT == 4
FLUSH == 5
FULL_HOUSE == 6
FOUR_OF_A_KIND == 7
STRAIGHT_FLUSH == 8

\* The result `null` of evaluate7.
NullHand == [rank |-> -1, tiebreaker |-> <<>>, name |-> "null"]

\* One step of the stable sort by (a, b) => b.rank - a.rank: c goes before
\* the first card of lower rank, after every card of the same rank.
InsertByRankDesc(sorted, c) ==
  LET lower == {i \in 1..Len(sorted) : sorted[i].rank < c.rank}
      at == IF lower = {} THEN Len(sorted) + 1
            ELSE CHOOSE i \in lower : \A j \in lower : i <= j
  IN SubSeq(sorted, 1, at - 1) \o <<c>> \o SubSeq(sorted, at, Len(sorted))

SortByRankDescUnsorted(cs) == cs

RECURSIVE SortByRankDesc(_)
SortByRankDesc(cs) ==
  IF cs = <<>> THEN <<>>
  ELSE InsertByRankDesc(SortByRankDesc(SubSeq(cs, 1, Len(cs) - 1)), cs[Len(cs)])

\* freq[r], the number of cards of rank r.
Freq(ranks, r) == Cardinality({i \in 1..Len(ranks) : ranks[i] = r})

\* The comparator of the group sort: b[1] - a[1] || parseInt(b[0]) - parseInt(a[0])
\* is negative when group g sorts before group h.
GroupBefore(ranks, g, h) ==
  \/ Freq(ranks, g) > Freq(ranks, h)
  \/ Freq(ranks, g) = Freq(ranks, h) /\ g > h

\* Object.entries(freq) sorted by (count desc, rank desc); the rank of each group.
RECURSIVE SortGroups(_, _)
SortGroups(ranks, rest) ==
  IF rest = {} THEN <<>>
  ELSE LET first == CHOOSE g \in rest : \A h \in rest \ {g} : GroupBefore(ranks, g, h)
       IN <<first>> \o SortGroups(ranks, rest \ {first})

StraightHighOfWheelIsAce(ranks, uniqueRanks, isWheel) ==
  IF uniqueRanks = 5 /\ (ranks[1] - ranks[5] = 4 \/ isWheel) THEN ranks[1] ELSE -1

\* straightHigh after the straight detection: -1, then the highest rank of
\* five consecutive ranks, then 3 for the wheel.
StraightHigh(ranks, uniqueRanks, isWheel) ==
  IF isWheel THEN 3
  ELSE IF uniqueRanks = 5 /\ ranks[1] - ranks[5] = 4 THEN ranks[1]
  ELSE -1

evaluate5(cs) ==
  LET sorted == SortByRankDesc(cs)
      ranks == [i \in 1..Len(sorted) |-> sorted[i].rank]
      suits == [i \in 1..Len(sorted) |-> sorted[i].suit]
      isFlush == Cardinality({suits[i] : i \in 1..Len(suits)}) = 1
      rankSet == {ranks[i] : i \in 1..Len(ranks)}
      uniqueRanks == Cardinality(rankSet)
      isWheel == /\ uniqueRanks = 5
                 /\ ranks[1] = 12 /\ ranks[2] = 3 /\ ranks[3] = 2
                 /\ ranks[4] = 1 /\ ranks[5] = 0
      isStraight == uniqueRanks = 5 /\ (ranks[1] - ranks[5] = 4 \/ isWheel)
      straightHigh == StraightHigh(ranks, uniqueRanks, isWheel)
      groups == SortGroups(ranks, rankSet)
      count(i) == Freq(ranks, groups[i])
  IN IF isFlush /\ isStraight
       THEN [rank |-> STRAIGHT_FLUSH, tiebreaker |-> <<straightHigh>>,
             name |-> IF straightHigh = 12 THEN "Royal Flush" ELSE "Straight Flush"]
     ELSE IF count(1) = 4
       THEN [rank |-> FOUR_OF_A_KIND, tiebreaker |-> groups, name |-> "Four of a Kind"]
     ELSE IF count(1) = 3 /\ count(2) = 2
       THEN [rank |-> FULL_HOUSE, tiebreaker |-> groups, name |-> "Full House"]
     ELSE IF isFlush
       THEN [rank |-> FLUSH, tiebreaker |-> ranks, name |-> "Flush"]
     ELSE IF isStraight
       THEN [rank |-> STRAIGHT, tiebreaker |-> <<straightHigh>>, name |-> "Straight"]
     ELSE IF count(1) = 3
       THEN [rank |-> THREE_OF_A_KIND, tiebreaker |-> groups, name |-> "Three of a Kind"]
     ELSE IF count(1) = 2 /\ count(2) = 2
       THEN [rank |-> TWO_PAIR, tiebreaker |-> groups, name |-> "Two Pair"]
     ELSE IF count(1) = 2
       THEN [rank |-> ONE_PAIR, tiebreaker |-> groups, name |-> "One Pair"]
     ELSE [rank |-> HIGH_CARD, tiebreaker |-> ranks, name |-> "High Card"]

-----------------------------------------------------------------------------
(* Comparator: src/index.js lines 112-121                                  *)

Max(x, y) == IF x >= y THEN x ELSE y
Min(x, y) == IF x <= y THEN x ELSE y

\* tiebreaker[i] ?? -1, i counted from 1.
At(tb, i) == IF i <= Len(tb) THEN tb[i] ELSE -1

\* The loop of compareHands from position i on.
RECURSIVE CompareFrom(_, _, _, _)
CompareFrom(ta, tb, i, len) ==
  IF i > len THEN 0
  ELSE IF At(ta, i) # At(tb, i) THEN At(ta, i) - At(tb, i)
  ELSE CompareFrom(ta, tb, i + 1, len)

compareHandsReturningLeft(x, y) ==
  IF x.rank # y.rank THEN x.rank - y.rank
  ELSE LET len == Max(Len(x.tiebreaker), Len(y.tiebreaker))
           differ == {i \in 1..len : At(x.tiebreaker, i) # At(y.tiebreaker, i)}
       IN IF differ = {} THEN 0
          ELSE At(x.tiebreaker, CHOOSE i \in differ : \A j \in differ : i <= j)

compareHands(x, y) ==
  IF x.rank # y.rank THEN x.rank - y.rank
  ELSE CompareFrom(x.tiebreaker, y.tiebreaker, 1,
                   Max(Len(x.tiebreaker), Len(y.tiebreaker)))

-----------------------------------------------------------------------------
(* Best-hand selector: src/index.js lines 128-149                          *)

\* The index tuples the nested loops visit, in the order they visit them:
\* k more indices, each above the previous one, the first at least `from`,
\* out of n (indices counted from 1).
RECURSIVE Combinations(_, _, _)
RECURSIVE CombinationsStartingAt(_, _, _)
CombinationsStartingAt(first, k, n) ==
  IF first > n - k + 1 THEN <<>>
  ELSE LET rest == Combinations(first + 1, k - 1, n)
       IN [i \in 1..Len(rest) |-> <<first>> \o rest[i]]
          \o CombinationsStartingAt(first + 1, k, n)

Combinations(from, k, n) ==
  IF k = 0 THEN << <<>> >> ELSE CombinationsStartingAt(from, k, n)

\* cardStrings.map(parseCard).filter(Boolean)
RECURSIVE ParseAll(_)
ParseAll(tokens) ==
  IF tokens = <<>> THEN <<>>
  ELSE LET c == parseCard(Head(tokens))
       IN (IF c = Null THEN <<>> ELSE <<c>>) \o ParseAll(Tail(tokens))

\* The five cards at the indices of one combination.
Pick(cs, combo) == [i \in 1..Len(combo) |-> cs[combo[i]]]

\* The running best after the combinations combos[i..] have been visited.
RECURSIVE BestFrom(_, _, _, _)
BestFrom(cs, combos, i, bestSoFar) ==
  IF i > Len(combos) THEN bestSoFar
  ELSE LET h == evaluate5(Pick(cs, combos[i]))
       IN BestFrom(cs, combos, i + 1,
                   IF bestSoFar = NullHand \/ compareHands(h, bestSoFar) > 0
                   THEN h ELSE bestSoFar)

BestOfCardsSkippingLast(cs) ==
  LET combos == Combinations(1, 5, Len(cs))
  IN BestFrom(cs, SubSeq(combos, 1, Len(combos) - 1), 1, NullHand)

\* evaluate7 on cards every one of which is a Card.
BestOfCards(cs) == BestFrom(cs, Combinations(1, 5, Len(cs)), 1, NullHand)

\* evaluate7(cardStrings): the set of values the call can return.  When a
\* parsed entry is not a Card (its rank is an inherited member, not a number)
\* the comparators of both sorts in evaluate5 yield NaN, the sort order is
\* implementation-defined, and so is the evaluation returned: an object whose
\* rank is one of the nine HAND_RANK values.  No statement of the call throws.
evaluate7(tokens) ==
  LET cs == ParseAll(tokens)
  IN IF Len(cs) < 5 THEN {NullHand}
     ELSE IF \A i \in 1..Len(cs) : IsCard(cs[i]) THEN {BestOfCards(cs)}
     ELSE {[rank |-> r, tiebreaker |-> <<>>, name |-> "implementation-defined"] :
             r \in HIGH_CARD..STRAIGHT_FLUSH}

-----------------------------------------------------------------------------
(* Equity estimator: src/index.js lines 156-203                            *)
(*                                                                         *)
(* Numbers are fixed-point: every probability the program computes is a    *)
(* multiple of 1/200 times a power of 22/25 (0.88), so with MaxExponent    *)
(* the largest exponent used, value v is the integer v * 200 * 25^MaxExponent. *)

\* Largest numOpponents handed to winProbability.
MaxOpponents == 3

MaxExponent == Max(0, MaxOpponents - 1)

RECURSIVE PowerOf(_, _)
PowerOf(base, n) == IF n = 0 THEN 1 ELSE base * PowerOf(base, n - 1)

\* The number n/200.
Fixed(n) == n * PowerOf(25, MaxExponent)

\* NaN, the result of arithmetic on a value that is not a number.
NaN == -1

\* Math.max and Math.min: NaN when an argument is NaN.
MathMax(x, y) == IF x = NaN \/ y = NaN THEN NaN ELSE Max(x, y)
MathMin(x, y) == IF x = NaN \/ y = NaN THEN NaN ELSE Min(x, y)

\* x * Math.pow(0.88, n), exact: 0.88 = 22/25.
RECURSIVE TimesPow088(_, _)
TimesPow088(x, n) ==
  IF x = NaN THEN NaN
  ELSE IF n = 0 THEN x
  ELSE TimesPow088((x * 22) \div 25, n - 1)

\* Twice the Chen score of two cards whose ranks are numbers (the score is a
\* multiple of 0.5).
Score2(c1, c2) ==
  LET hi == Max(c1.rank, c2.rank)
      lo == Min(c1.rank, c2.rank)
      suited == c1.suit = c2.suit
      isPair == hi = lo
      gap == hi - lo
  IN IF isPair
     THEN 2 * Max(5, IF hi = 12 THEN 20
                     ELSE IF hi = 11 THEN 16
                     ELSE IF hi = 10 THEN 14
                     ELSE IF hi = 9 THEN 12
                     ELSE hi * 2)
     ELSE hi + (IF suited THEN 4 ELSE 0) + (IF gap <= 1 THEN 2 ELSE 0)
             - 2 * Max(0, gap - 3)

\* score / 20 as a fixed-point number, from twice the score: s2 / 40 = 5 * s2 / 200.
ScoreOver20(s2) == Fixed(5 * s2)

preFlopStrengthClampedAtOne(h) ==
  IF Len(h) < 2 THEN Fixed(100)
  ELSE LET p == ParseAll(h)
       IN IF Len(p) < 2 THEN Fixed(100)
          ELSE IF p[1].rank = InheritedMember \/ p[2].rank = InheritedMember THEN NaN
          ELSE MathMax(Fixed(10), MathMin(Fixed(200), ScoreOver20(Score2(p[1], p[2]))))

preFlopStrength(h) ==
  IF Len(h) < 2 THEN Fixed(100)
  ELSE LET p == ParseAll(h)
       IN IF Len(p) < 2 THEN Fixed(100)
          ELSE IF p[1].rank = InheritedMember \/ p[2].rank = InheritedMember THEN NaN
          ELSE MathMax(Fixed(10), MathMin(Fixed(196), ScoreOver20(Score2(p[1], p[2]))))

\* TABLE, in 1/200: 0.10 0.38 0.55 0.68 0.72 0.77 0.86 0.93 0.97
TABLE == <<20, 76, 110, 136, 144, 154, 172, 186, 194>>

\* numOpponents = 1 when the option is absent.
OrDefault(n) == IF n = Undefined THEN 1 ELSE n

\* winProbability(opts), result being what evaluate7 returns when it is called.
winProbability(h, bd, n, result) ==
  IF Len(h) < 2 THEN Fixed(100)
  ELSE LET eq == IF Len(bd) = 0 THEN preFlopStrength(h)
                 ELSE IF result = NullHand THEN Fixed(100)
                 ELSE Fixed(TABLE[result.rank + 1])
       IN MathMax(Fixed(2), TimesPow088(eq, Max(0, OrDefault(n) - 1)))

-----------------------------------------------------------------------------
(* Specifications.  A variable a specification does not use keeps its idle *)
(* value.                                                                  *)

IdleCodec == str = Str(<<>>) /\ card = Null /\ parsed = Null /\ text = <<>>
IdleClassifier == cards = <<>> /\ hand = NullHand /\ shuffled = <<>> /\ hand2 = NullHand
IdleComparator == a = NullHand /\ b = NullHand /\ cmp = 0
IdleSelector == cardStrings = <<>> /\ best = NullHand
IdleEstimator == holeCards = <<>> /\ boardCards = <<>> /\ numOpponents = 1 /\ equity = 0

\* The subsequences of length k of seq, as the nested loops would pick them.
SubSequences(seq, k) ==
  LET combos == Combinations(1, k, Len(seq))
  IN {Pick(seq, combos[i]) : i \in 1..Len(combos)}

\* The 52 cards, suit by suit, ranks ascending.
FullDeck == [i \in 1..(Len(RANKS) * Len(SUITS)) |->
               [rank |-> (i - 1) % Len(RANKS), suit |-> (i - 1) \div Len(RANKS)]]

(* Codec ------------------------------------------------------------------*)

InitCodec ==
  /\ \/ pc = "token" /\ str \in CodecInputs /\ card = Null
     \/ pc = "card" /\ str = Str(<<>>) /\ card \in Cards
  /\ parsed = Null /\ text = <<>>
  /\ IdleClassifier /\ IdleComparator /\ IdleSelector /\ IdleEstimator

\* parseCard(str)
ParseCard ==
  /\ pc = "token"
  /\ parsed' = parseCard(str)
  /\ pc' = "parsed"
  /\ UNCHANGED <<str, card, text, classifierVars, comparatorVars, selectorVars, estimatorVars>>

\* cardToString(parseCard(str)), when parseCard returned an object
FormatParsed ==
  /\ pc = "parsed"
  /\ parsed # Null
  /\ text' = cardToString(parsed)
  /\ pc' = "formatted"
  /\ UNCHANGED <<str, card, parsed, classifierVars, comparatorVars, selectorVars, estimatorVars>>

\* cardToString(card)
CardToString ==
  /\ pc = "card"
  /\ text' = cardToString(card)
  /\ pc' = "text"
  /\ UNCHANGED <<str, card, parsed, classifierVars, comparatorVars, selectorVars, estimatorVars>>

\* parseCard(cardToString(card))
ParseFormatted ==
  /\ pc = "text"
  /\ str' = Str(text)
  /\ parsed' = parseCard(Str(text))
  /\ pc' = "reparsed"
  /\ UNCHANGED <<card, text, classifierVars, comparatorVars, selectorVars, estimatorVars>>

NextCodec == ParseCard \/ FormatParsed \/ CardToString \/ ParseFormatted

SpecCodec == InitCodec /\ [][NextCodec]_vars

(* Classifier -------------------------------------------------------------*)

\* Ranks (from 2 up) that the classifier's deck holds in every suit; spades
\* are complete.
OffSuitRanks == 4

ClassifyDeck ==
  SelectSeq(FullDeck, LAMBDA c : c.suit = 0 \/ c.rank < OffSuitRanks)

ClassifyHands == SubSequences(ClassifyDeck, 5)

InitClassify ==
  /\ pc = "dealt" /\ cards \in ClassifyHands
  /\ hand = NullHand /\ shuffled = <<>> /\ hand2 = NullHand
  /\ IdleCodec /\ IdleComparator /\ IdleSelector /\ IdleEstimator

\* evaluate5(cards)
Evaluate5 ==
  /\ pc = "dealt"
  /\ hand' = evaluate5(cards)
  /\ pc' = "evaluated"
  /\ UNCHANGED <<cards, shuffled, hand2, codecVars, comparatorVars, selectorVars, estimatorVars>>

NextClassify == Evaluate5

SpecClassify == InitClassify /\ [][NextClassify]_vars

(* Classifier, the same cards in every order -------------------------------*)

\* Spade ranks (from 2 up, the Ace added) and ranks held in every suit of the
\* deck whose hands are reordered.
ReorderSpadeRanks == 5
ReorderOffSuitRanks == 2

ReorderDeck ==
  SelectSeq(FullDeck, LAMBDA c : \/ c.suit = 0 /\ (c.rank < ReorderSpadeRanks \/ c.rank = 12)
                                 \/ c.rank < ReorderOffSuitRanks)

ReorderHands == SubSequences(ReorderDeck, 5)

\* The permutations of five positions.
Permutations5 == {p \in [1..5 -> 1..5] : \A i, j \in 1..5 : p[i] = p[j] => i = j}

InitReorder ==
  /\ pc = "dealt" /\ cards \in ReorderHands
  /\ hand = NullHand /\ shuffled = <<>> /\ hand2 = NullHand
  /\ IdleCodec /\ IdleComparator /\ IdleSelector /\ IdleEstimator

\* evaluate5 on the same five cards handed over in another order
EvaluateReordered ==
  /\ pc = "evaluated"
  /\ \E p \in Permutations5 :
       /\ shuffled' = [i \in 1..5 |-> cards[p[i]]]
       /\ hand2' = evaluate5([i \in 1..5 |-> cards[p[i]]])
  /\ pc' = "re-evaluated"
  /\ UNCHANGED <<cards, hand, codecVars, comparatorVars, selectorVars, estimatorVars>>

NextReorder == Evaluate5 \/ EvaluateReordered

SpecReorder == InitReorder /\ [][NextReorder]_vars

(* Comparator -------------------------------------------------------------*)

\* Spade ranks (from 2 up, the Ace added) and ranks held in every suit of the
\* deck whose hands' evaluations are compared.
CompareSpadeRanks == 5
CompareOffSuitRanks == 2

CompareDeck ==
  SelectSeq(FullDeck, LAMBDA c : \/ c.suit = 0 /\ (c.rank < CompareSpadeRanks \/ c.rank = 12)
                                 \/ c.rank < CompareOffSuitRanks)

\* The evaluations evaluate5 produces for the hands of the deck.
Evaluations == {evaluate5(h) : h \in SubSequences(CompareDeck, 5)}

InitCompare ==
  /\ pc = "evaluated" /\ a \in Evaluations /\ b \in Evaluations /\ cmp = 0
  /\ IdleCodec /\ IdleClassifier /\ IdleSelector /\ IdleEstimator

\* compareHands(a, b)
CompareHands ==
  /\ pc = "evaluated"
  /\ cmp' = compareHands(a, b)
  /\ pc' = "compared"
  /\ UNCHANGED <<a, b, codecVars, classifierVars, selectorVars, estimatorVars>>

NextCompare == CompareHands

SpecCompare == InitCompare /\ [][NextCompare]_vars

(* Selector ---------------------------------------------------------------*)

\* Most tokens handed to evaluate7, and how many tokens of SelectPool are used.
MaxCards == 7
PoolSize == 12

\* The tokens evaluate7 is handed: the example of the README, then two tokens
\* that are no card (the second names an inherited member), then more cards.
SelectPool ==
  << Str(<<"A","s">>), Str(<<"K","h">>), Str(<<"Q","d">>), Str(<<"J","c">>),
     Str(<<"T","s">>), Str(<<"3","h">>), Str(<<"7","d">>),
     Str(<<"X","x">>),
     Str(<<"c","o","n","s","t","r","u","c","t","o","r","s">>),
     Str(<<"K","s">>), Str(<<"Q","S">>), Str(<<"J","s">>),
     Str(<<"A","H">>), NonString("null"), Str(<<"3","d">>), Str(<<"3","c">>) >>

SelectTokens == SubSeq(SelectPool, 1, Min(PoolSize, Len(SelectPool)))

Reverse(l) == [i \in 1..Len(l) |-> l[Len(l) + 1 - i]]

InitSelect ==
  /\ pc = "tokens"
  /\ \E l \in UNION {SubSequences(SelectTokens, k) : k \in 0..MaxCards} :
       cardStrings \in {l, Reverse(l)}
  /\ best = NullHand
  /\ IdleCodec /\ IdleClassifier /\ IdleComparator /\ IdleEstimator

\* evaluate7(cardStrings)
Evaluate7 ==
  /\ pc = "tokens"
  /\ best' \in evaluate7(cardStrings)
  /\ pc' = "selected"
  /\ UNCHANGED <<cardStrings, codecVars, classifierVars, comparatorVars, estimatorVars>>

NextSelect == Evaluate7

SpecSelect == InitSelect /\ [][NextSelect]_vars

(* Estimator: preFlopStrength ---------------------------------------------*)

\* Most hole-card tokens handed to preFlopStrength.
MaxHoleCards == 2

\* Hole-card tokens: every rank in spades and hearts, and three tokens that
\* are no card.
HoleTokens ==
  {Str(<<RANKS[r], su>>) : r \in 1..Len(RANKS), su \in {"s", "H"}}
  \cup { Str(<<"X","x">>), NonString("null"),
         Str(<<"c","o","n","s","t","r","u","c","t","o","r","s">>) }

RECURSIVE ListsOver(_, _)
ListsOver(S, n) ==
  IF n = 0 THEN {<<>>}
  ELSE {Append(l, x) : l \in ListsOver(S, n - 1), x \in S}

InitPreFlop ==
  /\ pc = "hole"
  /\ holeCards \in UNION {ListsOver(HoleTokens, n) : n \in 0..MaxHoleCards}
  /\ boardCards = <<>> /\ numOpponents = 1 /\ equity = 0
  /\ IdleCodec /\ IdleClassifier /\ IdleComparator /\ IdleSelector

\* preFlopStrength(holeCards)
PreFlopStrength ==
  /\ pc = "hole"
  /\ equity' = preFlopStrength(holeCards)
  /\ pc' = "strength"
  /\ UNCHANGED <<holeCards, boardCards, numOpponents,
                 codecVars, classifierVars, comparatorVars, selectorVars>>

NextPreFlop == PreFlopStrength

SpecPreFlop == InitPreFlop /\ [][NextPreFlop]_vars

(* Estimator: winProbability ----------------------------------------------*)

\* Hole-card and board tokens handed to winProbability.
EquityHoleTokens ==
  { Str(<<"2","s">>), Str(<<"7","h">>), Str(<<"A","s">>), Str(<<"A","h">>),
    Str(<<"K","s">>), Str(<<"X","x">>),
    Str(<<"c","o","n","s","t","r","u","c","t","o","r","s">>) }

EquityBoardTokens ==
  << Str(<<"Q","s">>), Str(<<"J","s">>), Str(<<"T","s">>), Str(<<"A","d">>),
     Str(<<"2","d">>), Str(<<"7","c">>) >>

\* Most board tokens handed to winProbability.
MaxBoardCards == 5

InitEquity ==
  /\ pc = "opts"
  /\ holeCards \in UNION {ListsOver(EquityHoleTokens, n) : n \in 0..MaxHoleCards}
  /\ boardCards \in UNION {SubSequences(EquityBoardTokens, k) :
                             k \in 0..Min(MaxBoardCards, Len(EquityBoardTokens))}
  /\ numOpponents \in (0..MaxOpponents) \cup {Undefined}
  /\ equity = 0
  /\ IdleCodec /\ IdleClassifier /\ IdleComparator /\ IdleSelector

\* winProbability({holeCards, boardCards, numOpponents})
WinProbability ==
  /\ pc = "opts"
  /\ \E result \in (IF Len(holeCards) >= 2 /\ Len(boardCards) > 0
                    THEN evaluate7(holeCards \o boardCards) ELSE {NullHand}) :
       equity' = winProbability(holeCards, boardCards, numOpponents, result)
  /\ pc' = "probability"
  /\ UNCHANGED <<holeCards, boardCards, numOpponents,
                 codecVars, classifierVars, comparatorVars, selectorVars>>

NextEquity == WinProbability

SpecEquity == InitEquity /\ [][NextEquity]_vars

-----------------------------------------------------------------------------
(* What the claims are stated in: valid tokens and the cards they denote,  *)
(* written from the token format, not from parseCard.                      *)

RankChars == {"2", "3", "4", "5", "6", "7", "8", "9", "T", "J", "Q", "K", "A"}
SuitChars == {"s", "h", "d", "c", "S", "H", "D", "C"}

\* A valid token: a string of one rank character and one suit character.
IsValidToken(t) ==
  t.type = "string" /\ Len(t.chars) = 2
    /\ t.chars[1] \in RankChars /\ t.chars[2] \in SuitChars

RankOfChar(ch) == CHOOSE r \in 0..12 : RANKS[r + 1] = ch

SuitOfChar(ch) ==
  CASE ch \in {"s", "S"} -> 0 [] ch \in {"h", "H"} -> 1
    [] ch \in {"d", "D"} -> 2 [] ch \in {"c", "C"} -> 3

\* The card a valid token denotes.
CardOfToken(t) == [rank |-> RankOfChar(t.chars[1]), suit |-> SuitOfChar(t.chars[2])]

\* normalize(t): the rank character unchanged, the suit character lower-cased.
Normalize(t) ==
  <<t.chars[1], CASE t.chars[2] \in {"s", "S"} -> "s" [] t.chars[2] \in {"h", "H"} -> "h"
                  [] t.chars[2] \in {"d", "D"} -> "d" [] t.chars[2] \in {"c", "C"} -> "c">>

\* The cards of the valid tokens of a list, in the order of the list.
RECURSIVE CardsOfTokens(_)
CardsOfTokens(tokens) ==
  IF tokens = <<>> THEN <<>>
  ELSE (IF IsValidToken(Head(tokens)) THEN <<CardOfToken(Head(tokens))>> ELSE <<>>)
       \o CardsOfTokens(Tail(tokens))

\* The elements of a set of integers, ascending.
RECURSIVE Ascending(_)
Ascending(S) ==
  IF S = {} THEN <<>>
  ELSE LET m == CHOOSE x \in S : \A y \in S : x <= y
       IN <<m>> \o Ascending(S \ {m})

\* The five-card subsets of a list of cards, each in the order of the list.
FiveCardSubsets(cs) ==
  {[i \in 1..5 |-> cs[Ascending(S)[i]]] : S \in {T \in SUBSET (1..Len(cs)) : Cardinality(T) = 5}}

Sign(x) == IF x > 0 THEN 1 ELSE IF x < 0 THEN -1 ELSE 0

-----------------------------------------------------------------------------
(* C1 *)

ReadmeExample ==
  << Str(<<"A","s">>), Str(<<"K","h">>), Str(<<"Q","d">>), Str(<<"J","c">>),
     Str(<<"T","s">>), Str(<<"3","h">>), Str(<<"7","d">>) >>

\* C1: for a list of n >= 5 valid card tokens, evaluate7 returns the evaluation
\* of one of the five-card subsets of the cards, and that evaluation compares
\* >= the evaluation of every five-card subset; the README's example gives a
\* Straight with tiebreaker [12].
C1_BestOfAllSubsets ==
  (pc = "selected" /\ Len(cardStrings) >= 5
     /\ \A i \in 1..Len(cardStrings) : IsValidToken(cardStrings[i]))
  => LET subsets == FiveCardSubsets(CardsOfTokens(cardStrings))
     IN /\ \E h \in subsets : best = evaluate5(h)
        /\ \A h \in subsets : compareHands(best, evaluate5(h)) >= 0
        /\ cardStrings = ReadmeExample
             => best.rank = STRAIGHT /\ best.tiebreaker = <<12>>

C1_Witness ==
  /\ pc = "selected"
  /\ cardStrings = ReadmeExample
  /\ best = [rank |-> STRAIGHT, tiebreaker |-> <<12>>, name |-> "Straight"]

-----------------------------------------------------------------------------
(* C2 *)

\* C2: evaluate5 gives five cards one of the nine categories 0..8, and gives
\* the same five cards in any other order the identical evaluation (category,
\* tiebreaker and name).
C2_OrderIndependent ==
  /\ pc \in {"evaluated", "re-evaluated"} => hand.rank \in 0..8
  /\ pc = "re-evaluated" => hand2 = hand

C2_Witness ==
  /\ pc = "re-evaluated"
  /\ shuffled # cards
  /\ shuffled[1].rank < shuffled[2].rank
  /\ hand2 = hand
  /\ hand.rank = FLUSH

-----------------------------------------------------------------------------
(* C3 *)

\* C3: over the evaluations evaluate5 produces, compareHands is a total
\* preorder: compareHands(x, x) = 0, the sign of compareHands(a, b) is the
\* opposite of the sign of compareHands(b, a), and compareHands(a, b) >= 0
\* with compareHands(b, c) >= 0 gives compareHands(a, c) >= 0.
C3_TotalPreorder ==
  pc = "compared"
  => /\ compareHands(a, a) = 0 /\ compareHands(b, b) = 0
     /\ Sign(cmp) = - Sign(compareHands(b, a))
     /\ \A c \in Evaluations :
          (cmp >= 0 /\ compareHands(b, c) >= 0) => compareHands(a, c) >= 0

C3_Witness ==
  /\ pc = "compared"
  /\ a.rank = b.rank /\ a.rank = TWO_PAIR
  /\ a.tiebreaker[1] = b.tiebreaker[1] /\ a.tiebreaker[2] = b.tiebreaker[2]
  /\ cmp > 0
  /\ \E c \in Evaluations : c.rank = a.rank /\ compareHands(b, c) > 0

-----------------------------------------------------------------------------
(* C4 *)

\* C4: parseCard(cardToString(c)) = c for every card c, and
\* cardToString(parseCard(t)) = normalize(t) for every valid token t, the
\* suit character in either case.
C4_RoundTrip ==
  /\ pc = "reparsed" => parsed = card
  /\ (pc = "formatted" /\ IsValidToken(str)) => text = Normalize(str)
  /\ (pc = "parsed" /\ IsValidToken(str)) => parsed # Null

C4_Witness ==
  /\ pc = "formatted"
  /\ str = Str(<<"K", "H">>)
  /\ parsed = [rank |-> 11, suit |-> 1]
  /\ text = <<"K", "h">>

-----------------------------------------------------------------------------
(* C5 *)

\* The tokens for which the claim says parseCard returns null.
MustBeAbsent(t) ==
  \/ t.type # "string"
  \/ Len(t.chars) < 2
  \/ LowerChar(t.chars[Len(t.chars)]) \notin {"s", "h", "d", "c"}
  \/ Len(t.chars) # 2
  \/ t.chars[1] \notin RankChars

\* C5: parseCard returns null for a token that is empty or no string, shorter
\* than 2 characters, whose last character lower-cased is not a suit, or whose
\* rank prefix is not exactly one rank character; for every other token it
\* returns a card with rank in 0..12 and suit in 0..3.
C5_AllOrNothing ==
  pc = "parsed"
  => IF MustBeAbsent(str) THEN parsed = Null ELSE IsCard(parsed)

\* What C5 says of the tokens whose rank prefix names no inherited member.
C5_AllOrNothingOfOwnKeys ==
  (pc = "parsed" /\ RankPrefix(str.chars) \notin ObjectPrototypeKeys)
  => IF MustBeAbsent(str) THEN parsed = Null ELSE IsCard(parsed)

-----------------------------------------------------------------------------
(* C6 *)

\* C6: evaluate7 returns null exactly when fewer than 5 of the tokens are
\* cards, and otherwise returns the evaluation of five of the cards the valid
\* tokens denote.
C6_AbsentIffFewerThanFiveCards ==
  pc = "selected"
  => LET valid == CardsOfTokens(cardStrings)
     IN IF Len(valid) < 5 THEN best = NullHand
        ELSE best # NullHand /\ \E h \in FiveCardSubsets(valid) : best = evaluate5(h)

\* What C6 says of the lists that hold no token naming an inherited member.
C6_AbsentIffFewerThanFiveCardsOfOwnKeys ==
  (pc = "selected"
     /\ \A i \in 1..Len(cardStrings) : parseCard(cardStrings[i]).rank # InheritedMember)
  => LET valid == CardsOfTokens(cardStrings)
     IN IF Len(valid) < 5 THEN best = NullHand
        ELSE best # NullHand /\ \E h \in FiveCardSubsets(valid) : best = evaluate5(h)

-----------------------------------------------------------------------------
(* C7, C8 *)

\* The score of the claim, doubled: a pocket pair scores max(5, 2 * rank) with
\* AA = 20, KK = 16, QQ = 14, JJ = 12; two other cards score half the higher
\* rank, + 2 if suited, + 1 if the gap is at most 1, - max(0, gap - 3).
ClaimedScore2(c1, c2) ==
  LET hi == IF c1.rank > c2.rank THEN c1.rank ELSE c2.rank
      lo == IF c1.rank > c2.rank THEN c2.rank ELSE c1.rank
      pairScore == CASE hi = 12 -> 20 [] hi = 11 -> 16 [] hi = 10 -> 14 [] hi = 9 -> 12
                     [] OTHER -> IF 2 * hi < 5 THEN 5 ELSE 2 * hi
  IN IF c1.rank = c2.rank THEN 2 * pairScore
     ELSE hi + (IF c1.suit = c2.suit THEN 4 ELSE 0) + (IF hi - lo <= 1 THEN 2 ELSE 0)
             - (IF hi - lo > 3 THEN 2 * (hi - lo - 3) ELSE 0)

\* score / 20 clamped into [0.05, 0.98], from twice the score.
ClaimedStrength(s2) ==
  IF 5 * s2 < 10 THEN Fixed(10) ELSE IF 5 * s2 > 196 THEN Fixed(196) ELSE Fixed(5 * s2)

\* C7: preFlopStrength returns 0.5 when fewer than two of the tokens are
\* cards, and otherwise score / 20 clamped into [0.05, 0.98] for the first two
\* cards; the result is never below 0.05 and never above 0.98.
C7_ClampedChenScore ==
  pc = "strength"
  => LET valid == CardsOfTokens(holeCards)
     IN /\ equity = IF Len(valid) < 2 THEN Fixed(100)
                    ELSE ClaimedStrength(ClaimedScore2(valid[1], valid[2]))
        /\ equity >= Fixed(10) /\ equity <= Fixed(196)

\* What C7 says of the lists that hold no token naming an inherited member.
C7_ClampedChenScoreOfOwnKeys ==
  (pc = "strength"
     /\ \A i \in 1..Len(holeCards) : parseCard(holeCards[i]).rank # InheritedMember)
  => LET valid == CardsOfTokens(holeCards)
     IN /\ equity = IF Len(valid) < 2 THEN Fixed(100)
                    ELSE ClaimedStrength(ClaimedScore2(valid[1], valid[2]))
        /\ equity >= Fixed(10) /\ equity <= Fixed(196)

PocketAces == <<Str(<<"A","s">>), Str(<<"A","H">>)>>

\* C8 as stated: preFlopStrength(["As","Ah"]) returns 1.0.
C8_PocketAcesGiveOne ==
  (pc = "strength" /\ holeCards = PocketAces) => equity = Fixed(200)

\* C8 as amended: preFlopStrength(["As","Ah"]) returns 0.98: the pair scores
\* 20, and 20/20 = 1.0 is clamped to the upper limit 0.98.
C8_PocketAcesGiveUpperLimit ==
  (pc = "strength" /\ holeCards = PocketAces) => equity = Fixed(196)

C8_Witness ==
  pc = "strength" /\ holeCards = PocketAces /\ equity = Fixed(196)

-----------------------------------------------------------------------------
(* C9 *)

\* max(0.01, e * 0.88^k) for e in 1/200, over the denominator 200 * 25^MaxExponent.
ClaimedDiscount(e, k) ==
  LET x == e * PowerOf(22, k) * PowerOf(25, MaxExponent - k)
  IN IF x < Fixed(2) THEN Fixed(2) ELSE x

\* C9: winProbability returns 0.5 for fewer than two hole cards; otherwise
\* max(0.01, E * 0.88^max(0, numOpponents - 1)), numOpponents 1 when absent, E
\* being preFlopStrength(holeCards) on an empty board and else the TABLE entry
\* of the category evaluate7 returns (0.5 when it returns null).  The result is
\* in [0.01, 1.0], does not grow with numOpponents, and with an empty board
\* and numOpponents <= 1 it is preFlopStrength(holeCards).
C9_DiscountedEquity ==
  pc = "probability"
  => LET n == IF numOpponents = Undefined THEN 1 ELSE numOpponents
         k == IF n > 1 THEN n - 1 ELSE 0
         valid == CardsOfTokens(holeCards \o boardCards)
     IN /\ equity >= Fixed(2) /\ equity <= Fixed(200)
        /\ n < MaxOpponents
             => \E r \in evaluate7(holeCards \o boardCards) :
                  /\ equity = winProbability(holeCards, boardCards, n, r)
                  /\ winProbability(holeCards, boardCards, n + 1, r) <= equity
        /\ Len(holeCards) < 2 => equity = Fixed(100)
        /\ (Len(holeCards) >= 2 /\ boardCards = <<>>)
             => /\ equity = TimesPow088(preFlopStrength(holeCards), k)
                /\ k = 0 => equity = preFlopStrength(holeCards)
        /\ (Len(holeCards) >= 2 /\ boardCards # <<>> /\ Len(valid) < 5)
             => equity = ClaimedDiscount(100, k)
        /\ (Len(holeCards) >= 2 /\ boardCards # <<>> /\ Len(valid) >= 5)
             => \E h \in FiveCardSubsets(valid) :
                  /\ \A g \in FiveCardSubsets(valid) :
                       compareHands(evaluate5(h), evaluate5(g)) >= 0
                  /\ equity = ClaimedDiscount(TABLE[evaluate5(h).rank + 1], k)

\* What C9 says of the options that hold no token naming an inherited member.
C9_DiscountedEquityOfOwnKeys ==
  (\A i \in 1..Len(holeCards \o boardCards) :
      parseCard((holeCards \o boardCards)[i]).rank # InheritedMember)
  => C9_DiscountedEquity

-----------------------------------------------------------------------------
(* C10 *)

RanksOf(cs) == {cs[i].rank : i \in 1..Len(cs)}

CountOf(cs, r) == Cardinality({i \in 1..Len(cs) : cs[i].rank = r})

\* The ranks of the cards, highest first, each as often as it occurs: the
\* i-th is the rank r with fewer than i cards above r and at least i cards
\* at or above r.
RanksDescending(cs) ==
  [i \in 1..Len(cs) |->
     CHOOSE r \in RanksOf(cs) :
       /\ Cardinality({j \in 1..Len(cs) : cs[j].rank > r}) < i
       /\ Cardinality({j \in 1..Len(cs) : cs[j].rank >= r}) >= i]

\* The distinct ranks ordered by count descending, then rank descending.
GroupRanks(cs) ==
  LET key(r) == 13 * CountOf(cs, r) + r
      n == Cardinality(RanksOf(cs))
  IN [i \in 1..n |->
        CHOOSE r \in RanksOf(cs) :
          Cardinality({q \in RanksOf(cs) : key(q) > key(r)}) = i - 1]

ExpectedEvaluation(cs) ==
  LET rs == RanksOf(cs)
      hi == CHOOSE r \in rs : \A q \in rs : q <= r
      lo == CHOOSE r \in rs : \A q \in rs : q >= r
      counts == {CountOf(cs, r) : r \in rs}
      pairs == Cardinality({r \in rs : CountOf(cs, r) = 2})
      wheel == rs = {12, 3, 2, 1, 0}
      straight == Cardinality(rs) = 5 /\ (hi - lo = 4 \/ wheel)
      high == IF wheel THEN 3 ELSE hi
      flush == \A i, j \in 1..Len(cs) : cs[i].suit = cs[j].suit
  IN CASE straight /\ flush ->
            [rank |-> 8, tiebreaker |-> <<high>>,
             name |-> IF high = 12 THEN "Royal Flush" ELSE "Straight Flush"]
       [] ~(straight /\ flush) /\ 4 \in counts ->
            [rank |-> 7, tiebreaker |-> GroupRanks(cs), name |-> "Four of a Kind"]
       [] counts = {3, 2} ->
            [rank |-> 6, tiebreaker |-> GroupRanks(cs), name |-> "Full House"]
       [] flush /\ ~straight /\ 4 \notin counts /\ counts # {3, 2} ->
            [rank |-> 5, tiebreaker |-> RanksDescending(cs), name |-> "Flush"]
       [] straight /\ ~flush ->
            [rank |-> 4, tiebreaker |-> <<high>>, name |-> "Straight"]
       [] ~flush /\ counts = {3, 1} ->
            [rank |-> 3, tiebreaker |-> GroupRanks(cs), name |-> "Three of a Kind"]
       [] ~flush /\ counts = {2, 1} /\ pairs = 2 ->
            [rank |-> 2, tiebreaker |-> GroupRanks(cs), name |-> "Two Pair"]
       [] ~flush /\ counts = {2, 1} /\ pairs = 1 ->
            [rank |-> 1, tiebreaker |-> GroupRanks(cs), name |-> "One Pair"]
       [] OTHER ->
            [rank |-> 0, tiebreaker |-> RanksDescending(cs), name |-> "High Card"]

\* C10: for five distinct cards evaluate5 returns the category of the first
\* matching rule of the precedence StraightFlush ... HighCard with that
\* category's tiebreaker and name; a straight is five distinct ranks that are
\* consecutive or the wheel {A,5,4,3,2}, whose straight-high is 3, so the wheel
\* compares strictly below every other straight and K,A,2,3,4 is no straight;
\* the name is "Royal Flush" iff the hand is a StraightFlush of straight-high 12.
C10_FirstMatchingRule ==
  pc = "evaluated"
  => /\ hand = ExpectedEvaluation(cards)
     /\ hand.name = "Royal Flush" <=> (hand.rank = STRAIGHT_FLUSH /\ hand.tiebreaker = <<12>>)
     /\ RanksOf(cards) = {11, 12, 0, 1, 2} => hand.rank \in {HIGH_CARD, FLUSH}
     /\ (hand.rank \in {STRAIGHT, STRAIGHT_FLUSH} /\ RanksOf(cards) # {12, 3, 2, 1, 0})
          => compareHands([hand EXCEPT !.tiebreaker = <<3>>], hand) < 0

C10_Witness ==
  /\ pc = "evaluated"
  /\ RanksOf(cards) = {12, 3, 2, 1, 0}
  /\ hand = [rank |-> STRAIGHT, tiebreaker |-> <<3>>, name |-> "Straight"]

====
